---- MODULE Spec2Model ----
(***************************************************************************)
(* The three Lambda entry points of the items CRUD API (create-or-update,  *)
(* delete, list) over one DynamoDB table keyed by id with the name index   *)
(* gsi-name.  An invocation is a process; its atomic steps are its calls   *)
(* to the table (get_item, query, put_item, delete_item, scan), each of    *)
(* which either succeeds or raises.  The table follows the storage         *)
(* contract: single-item calls are atomic, a failed call changes nothing,  *)
(* reads and the name index are consistent with the table.                 *)
(***************************************************************************)
EXTENDS Integers, Sequences, FiniteSets, TLC

(* ---------------------------- bounds ----------------------------------- *)
NumProcs == 2          \* invocations that may be in flight together
MaxInvocations == 3    \* invocations started in one behaviour
MaxIds == 2            \* ids uuid4 hands out / ids a request may name
MaxTime == 2           \* distinct values datetime.utcnow() may return
NumNames == 2          \* distinct non-empty names in requests

Procs == 1..NumProcs
Ids == 1..MaxIds
Times == 1..MaxTime
NameOf == <<"A", "B", "C", "D">>
Names == {NameOf[i] : i \in 1..NumNames}

(* ------------------------- values of the code -------------------------- *)
Absent == "<absent>"       \* data.get('name') of a payload without 'name'
Empty == ""                \* a 'name' that is present and falsy
NameVals == Names \cup {Absent, Empty}
NoId == 0                  \* no id: not generated, or missing path parameter
NoTime == 0                \* the item has no 'updated_at' key
NoItem == [id |-> NoId, name |-> Absent, created_at |-> NoTime, updated_at |-> NoTime]

DataRequired == "Item data is required"
NameRequired == "Name is required"
NameExists == "Item with the same name already exists"
ItemNotFound == "Item with id not found"
IdRequiredInPath == "Item ID is required in path parameters"
FailedCreate == "Failed to create item"
FailedDelete == "Failed to delete item"
FailedFetch == "Failed to fetch items"
InternalPrefix == "Internal server error"
StorageFailure == "storage call failed"
KeyErrorItem == "KeyError 'Item'"
CreatedMsg == "Item created successfully"
UpdatedMsg == "Item updated successfully"
DeletedMsg == "Item deleted successfully"
TableNameRequired == "TABLE_NAME environment variable is required"
ItemsTable == "ItemsTable"   \* TABLE_NAME as the stack sets it
Unset == "<unset>"           \* os.environ.get('TABLE_NAME') is None

Payloads == [hasId : BOOLEAN, id : Ids, name : NameVals, extra : BOOLEAN]

\* `not name` that only notices the missing key
NameIsNone(name) == name = Absent

\* body.pop('id') leaves `data`; `not data` is true of the empty dict
DataEmpty(body) == body.name = Absent /\ ~body.extra
\* `not name`: the key is missing (None) or its value is falsy
NameFalsy(name) == name \in {Absent, Empty}

(* --------------------------- the table --------------------------------- *)
GetItem(t, id) == {x \in t : x.id = id}
HasItem(t, id) == GetItem(t, id) # {}
TheItem(t, id) == CHOOSE x \in t : x.id = id
PutItem(t, item) == {x \in t : x.id # item.id} \cup {item}
DeleteItem(t, id) == {x \in t : x.id # id}
\* a scan that stops after its first item
ScanOnePage(t) == IF t = {} THEN {} ELSE {CHOOSE x \in t : TRUE}
Scan(t) == t
QueryByName(t, name) == {x \in t : x.name = name}

(* ------------------------ response envelope ---------------------------- *)
NoBody == [error |-> <<>>, message |-> "", item |-> NoItem, items |-> {}, count |-> 0]
NoResp == [statusCode |-> 0, body |-> NoBody]
APISuccess(data, status_code) == [statusCode |-> status_code, body |-> data]
APIError(message, status_code) ==
    [statusCode |-> status_code, body |-> [NoBody EXCEPT !.error = message]]

ValueError(m) == [type |-> "ValueError", msg |-> <<m>>]
RuntimeError(prefix, e) == [type |-> "RuntimeError", msg |-> <<prefix>> \o e.msg]
ClientError == [type |-> "ClientError", msg |-> <<StorageFailure>>]
KeyError == [type |-> "KeyError", msg |-> <<KeyErrorItem>>]

\* the except clauses of a lambda_handler, in order
HandleException(e) ==
    IF e.type = "ValueError" THEN APIError(e.msg, 400)
    ELSE APIError(<<InternalPrefix>> \o e.msg, 500)

(* ----------------------------- state ----------------------------------- *)
\* table    the items of the DynamoDB table
\* nextId   the next value of uuid4 (every value is handed out once)
\* started  the number of invocations started so far
\* pc       per invocation slot: idle, the storage call it is about to make
\*          (c_query c_put u_get u_query u_put u_reget d_get d_delete l_scan),
\*          or done (its envelope is ready)
\* loc      the locals of the handler: item_id, name, timestamp, item
\* resp     the envelope the entry point returns
\* stat     what the invocation did to the table: calls, puts, deletes,
\*          and whether a call raised
\* tab0     the table as the invocation found it when it started
\* hist     the invocations answered 200/201, in the order of their answers
\* table_name  the TABLE_NAME setting of the environment the functions run in
VARIABLES table, nextId, started, pc, loc, resp, stat, tab0, hist, table_name

vars == <<table, nextId, started, pc, loc, resp, stat, tab0, hist, table_name>>

\* the locals of an invocation: `data` is kept as its name and its emptiness
NoLoc == [op |-> "none", data_empty |-> FALSE, item_id |-> NoId, name |-> Absent,
          timestamp |-> NoTime, item |-> NoItem]
NoStat == [calls |-> 0, puts |-> 0, deletes |-> 0, failed |-> FALSE]

\* the empty table and no invocation yet
InitTable ==
    /\ table = {}
    /\ nextId = 1
    /\ started = 0
    /\ pc = [p \in Procs |-> "idle"]
    /\ loc = [p \in Procs |-> NoLoc]
    /\ resp = [p \in Procs |-> NoResp]
    /\ stat = [p \in Procs |-> NoStat]
    /\ tab0 = [p \in Procs |-> {}]
    /\ hist = <<>>

\* the functions as the stack deploys them: TABLE_NAME is "ItemsTable"
Init == InitTable /\ table_name = ItemsTable

\* the functions in any environment: TABLE_NAME may be missing
InitEnv == InitTable /\ table_name \in {ItemsTable, Unset}

\* DynamoDBBase.__init__, called first thing inside the try of every
\* lambda_handler: without TABLE_NAME it raises ValueError
HandlerInitFails == table_name = Unset

\* a completed invocation leaves its envelope; successes are logged in order
Finish(p, envelope, l, s) ==
    /\ pc' = [pc EXCEPT ![p] = "done"]
    /\ resp' = [resp EXCEPT ![p] = envelope]
    /\ loc' = [loc EXCEPT ![p] = l]
    /\ stat' = [stat EXCEPT ![p] = s]
    /\ hist' = IF envelope.statusCode \in {200, 201}
               THEN Append(hist, [op |-> l.op, item_id |-> l.item_id, name |-> l.name,
                                  result |-> envelope.body])
               ELSE hist
    /\ UNCHANGED table_name

Goto(p, label, l, s) ==
    /\ pc' = [pc EXCEPT ![p] = label]
    /\ loc' = [loc EXCEPT ![p] = l]
    /\ stat' = [stat EXCEPT ![p] = s]
    /\ UNCHANGED <<resp, hist, table_name>>

Called(s) == [s EXCEPT !.calls = @ + 1]
FailedCall(s) == [s EXCEPT !.calls = @ + 1, !.failed = TRUE]

\* is_name_exists that never finds the name
is_name_exists_never(t, name) == Cardinality(QueryByName(t, name)) > Cardinality(t)

\* is_name_exists that answers for the table being non-empty
is_name_exists_any(t, name) == Cardinality(t) > 0

\* is_name_exists: the query on gsi-name returned at least one item
is_name_exists(t, name) == Cardinality(QueryByName(t, name)) > 0

\* create_item: the item dict, without an 'updated_at' key
NewItem(item_id, name, timestamp) ==
    [id |-> item_id, name |-> name, created_at |-> timestamp, updated_at |-> NoTime]

\* an update that gives the item a new id, as create_item does
UpdatedItemNewId(item, name, timestamp) ==
    [item EXCEPT !.name = name, !.updated_at = timestamp, !.id = (item.id % MaxIds) + 1]

\* an update that restamps created_at as well
UpdatedItemRestamped(item, name, timestamp) ==
    [item EXCEPT !.name = name, !.updated_at = timestamp, !.created_at = timestamp]

\* update_item: item["name"] = name; item["updated_at"] = timestamp
UpdatedItem(item, name, timestamp) ==
    [item EXCEPT !.name = name, !.updated_at = timestamp]

\* an invocation takes the lowest free slot
FreeSlot(p) == pc[p] = "idle" /\ \A q \in Procs : q < p => pc[q] # "idle"

\* uuid4 values not yet handed out are left for every create that may ask for one
CreatesInFlight == Cardinality({q \in Procs : pc[q] = "c_query"})

(* ------------------- CreateUpdate/lambda_functions.py ------------------ *)
\* lambda_handler up to the first storage call of create_item / update_item.
\* update_item reads the clock here, create_item only after its query.
InvokeCreateOrUpdate(p) ==
    /\ FreeSlot(p)
    /\ started < MaxInvocations
    /\ \E body \in Payloads, now \in Times :
         LET l == [NoLoc EXCEPT !.op = IF body.hasId THEN "update" ELSE "create",
                                !.data_empty = DataEmpty(body),
                                !.item_id = IF body.hasId THEN body.id ELSE NoId,
                                !.name = body.name]
         IN  /\ ~body.hasId => body.id = 1
             /\ IF HandlerInitFails
                  THEN /\ now = 1 /\ body.id = 1 /\ ~body.hasId /\ DataEmpty(body)
                       /\ Finish(p, HandleException(ValueError(TableNameRequired)),
                                 [NoLoc EXCEPT !.op = "createOrUpdate"], NoStat)
                ELSE IF DataEmpty(body)
                  THEN /\ now = 1
                       /\ Finish(p, HandleException(ValueError(DataRequired)), l, NoStat)
                ELSE IF body.hasId
                  THEN Goto(p, "u_get", [l EXCEPT !.timestamp = now], NoStat)
                ELSE IF NameFalsy(body.name)
                  THEN /\ now = 1
                       /\ Finish(p, HandleException(ValueError(NameRequired)), l, NoStat)
                ELSE /\ now = 1
                     /\ nextId + CreatesInFlight <= MaxIds
                     /\ Goto(p, "c_query", l, NoStat)
    /\ started' = started + 1
    /\ tab0' = [tab0 EXCEPT ![p] = table]
    /\ UNCHANGED <<table, nextId>>

\* create_item: is_name_exists(name), then uuid4 and utcnow
CreateQuery(p) ==
    /\ pc[p] = "c_query"
    /\ \E ok \in BOOLEAN, now \in Times :
         IF ~ok
           THEN /\ now = 1
                /\ Finish(p, HandleException(ClientError), loc[p], FailedCall(stat[p]))
                /\ UNCHANGED nextId
         ELSE IF is_name_exists(table, loc[p].name)
           THEN /\ now = 1
                /\ Finish(p, HandleException(ValueError(NameExists)), loc[p],
                          Called(stat[p]))
                /\ UNCHANGED nextId
         ELSE /\ Goto(p, "c_put",
                      [loc[p] EXCEPT !.item_id = nextId, !.timestamp = now,
                                     !.item = NewItem(nextId, loc[p].name, now)],
                      Called(stat[p]))
              /\ nextId' = nextId + 1
    /\ UNCHANGED <<table, started, tab0>>

\* a put_item conditional on the name still being free
CreatePutIfNameFree(p) ==
    /\ pc[p] = "c_put"
    /\ IF is_name_exists(table, loc[p].name)
         THEN /\ UNCHANGED table
              /\ Finish(p, HandleException(ValueError(NameExists)), loc[p], Called(stat[p]))
         ELSE /\ table' = PutItem(table, loc[p].item)
              /\ Finish(p, APISuccess([NoBody EXCEPT !.message = CreatedMsg,
                                                     !.item = loc[p].item], 201),
                        loc[p], [Called(stat[p]) EXCEPT !.puts = @ + 1])
    /\ UNCHANGED <<nextId, started, tab0>>

\* create_item: put_item inside try/except
CreatePut(p) ==
    /\ pc[p] = "c_put"
    /\ \E ok \in BOOLEAN :
         IF ok
           THEN /\ table' = PutItem(table, loc[p].item)
                /\ Finish(p, APISuccess([NoBody EXCEPT !.message = CreatedMsg,
                                                       !.item = loc[p].item], 201),
                          loc[p], [Called(stat[p]) EXCEPT !.puts = @ + 1])
           ELSE /\ UNCHANGED table
                /\ Finish(p, HandleException(RuntimeError(FailedCreate, ClientError)),
                          loc[p], FailedCall(stat[p]))
    /\ UNCHANGED <<nextId, started, tab0>>

\* update_item validating the name before it looks the item up
UpdateGetNameFirst(p) ==
    /\ pc[p] = "u_get"
    /\ \E ok \in BOOLEAN :
         IF NameFalsy(loc[p].name)
           THEN /\ ok
                /\ Finish(p, HandleException(ValueError(NameRequired)), loc[p], stat[p])
         ELSE IF ~ok
           THEN Finish(p, HandleException(ClientError), loc[p], FailedCall(stat[p]))
         ELSE IF ~HasItem(table, loc[p].item_id)
           THEN Finish(p, HandleException(ValueError(ItemNotFound)), loc[p], Called(stat[p]))
         ELSE Goto(p, "u_query", [loc[p] EXCEPT !.item = TheItem(table, loc[p].item_id)],
                   Called(stat[p]))
    /\ UNCHANGED <<table, nextId, started, tab0>>

\* update_item: get_item, the 'Item' test and the name test
UpdateGet(p) ==
    /\ pc[p] = "u_get"
    /\ \E ok \in BOOLEAN :
         IF ~ok
           THEN Finish(p, HandleException(ClientError), loc[p], FailedCall(stat[p]))
         ELSE IF ~HasItem(table, loc[p].item_id)
           THEN Finish(p, HandleException(ValueError(ItemNotFound)), loc[p], Called(stat[p]))
         ELSE IF NameFalsy(loc[p].name)
           THEN Finish(p, HandleException(ValueError(NameRequired)), loc[p], Called(stat[p]))
         ELSE Goto(p, "u_query", [loc[p] EXCEPT !.item = TheItem(table, loc[p].item_id)],
                   Called(stat[p]))
    /\ UNCHANGED <<table, nextId, started, tab0>>

\* an update whose name check leaves out the item being updated
UpdateQueryExcludingSelf(p) ==
    /\ pc[p] = "u_query"
    /\ \E ok \in BOOLEAN :
         IF ~ok
           THEN Finish(p, HandleException(ClientError), loc[p], FailedCall(stat[p]))
         ELSE IF \E x \in QueryByName(table, loc[p].name) : x.id # loc[p].item_id
           THEN Finish(p, HandleException(ValueError(NameExists)), loc[p], Called(stat[p]))
         ELSE Goto(p, "u_put", loc[p], Called(stat[p]))
    /\ UNCHANGED <<table, nextId, started, tab0>>

\* update_item: is_name_exists(name)
UpdateQuery(p) ==
    /\ pc[p] = "u_query"
    /\ \E ok \in BOOLEAN :
         IF ~ok
           THEN Finish(p, HandleException(ClientError), loc[p], FailedCall(stat[p]))
         ELSE IF is_name_exists(table, loc[p].name)
           THEN Finish(p, HandleException(ValueError(NameExists)), loc[p],
                       Called(stat[p]))
         ELSE Goto(p, "u_put", loc[p], Called(stat[p]))
    /\ UNCHANGED <<table, nextId, started, tab0>>

\* update_item: the item read earlier gets the name and updated_at and is put back
UpdatePut(p) ==
    /\ pc[p] = "u_put"
    /\ \E ok \in BOOLEAN :
         LET item == UpdatedItem(loc[p].item, loc[p].name, loc[p].timestamp)
         IN  IF ok
               THEN /\ table' = PutItem(table, item)
                    /\ Goto(p, "u_reget", [loc[p] EXCEPT !.item = item],
                            [Called(stat[p]) EXCEPT !.puts = @ + 1])
               ELSE /\ UNCHANGED table
                    /\ Finish(p, HandleException(RuntimeError(FailedCreate, ClientError)),
                              [loc[p] EXCEPT !.item = item], FailedCall(stat[p]))
    /\ UNCHANGED <<nextId, started, tab0>>

\* update_item: get_item again and updated_response['Item'], still inside the try
UpdateReget(p) ==
    /\ pc[p] = "u_reget"
    /\ \E ok \in BOOLEAN :
         IF ~ok
           THEN Finish(p, HandleException(RuntimeError(FailedCreate, ClientError)),
                       loc[p], FailedCall(stat[p]))
         ELSE IF ~HasItem(table, loc[p].item_id)
           THEN Finish(p, HandleException(RuntimeError(FailedCreate, KeyError)),
                       loc[p], Called(stat[p]))
         ELSE LET item == TheItem(table, loc[p].item_id)
              IN  Finish(p, APISuccess([NoBody EXCEPT !.message = UpdatedMsg,
                                                      !.item = item], 201),
                         [loc[p] EXCEPT !.item = item], Called(stat[p]))
    /\ UNCHANGED <<table, nextId, started, tab0>>

(* ---------------------- Delete/lambda_functions.py --------------------- *)
\* lambda_handler: the id path parameter, then delete_item up to its get_item
InvokeDelete(p) ==
    /\ FreeSlot(p)
    /\ started < MaxInvocations
    /\ \E id \in Ids \cup {NoId} :
         LET l == [NoLoc EXCEPT !.op = "delete", !.item_id = id]
         IN  IF HandlerInitFails
               THEN /\ id = NoId
                    /\ Finish(p, HandleException(ValueError(TableNameRequired)),
                              [NoLoc EXCEPT !.op = "delete"], NoStat)
             ELSE IF id = NoId
               THEN Finish(p, HandleException(ValueError(IdRequiredInPath)), l, NoStat)
               ELSE Goto(p, "d_get", l, NoStat)
    /\ started' = started + 1
    /\ tab0' = [tab0 EXCEPT ![p] = table]
    /\ UNCHANGED <<table, nextId>>

\* delete_item: get_item and the 'Item' test, both inside the try whose
\* except clause turns every exception into a RuntimeError
DeleteGet(p) ==
    /\ pc[p] = "d_get"
    /\ \E ok \in BOOLEAN :
         IF ~ok
           THEN Finish(p, HandleException(RuntimeError(FailedDelete, ClientError)),
                       loc[p], FailedCall(stat[p]))
         ELSE IF ~HasItem(table, loc[p].item_id)
           THEN Finish(p, HandleException(RuntimeError(FailedDelete, ValueError(ItemNotFound))),
                       loc[p], Called(stat[p]))
         ELSE Goto(p, "d_delete", loc[p], Called(stat[p]))
    /\ UNCHANGED <<table, nextId, started, tab0>>

\* delete_item: table.delete_item
DeleteDelete(p) ==
    /\ pc[p] = "d_delete"
    /\ \E ok \in BOOLEAN :
         IF ok
           THEN /\ table' = DeleteItem(table, loc[p].item_id)
                /\ Finish(p, APISuccess([NoBody EXCEPT !.message = DeletedMsg], 200),
                          loc[p], [Called(stat[p]) EXCEPT !.deletes = @ + 1])
           ELSE /\ UNCHANGED table
                /\ Finish(p, HandleException(RuntimeError(FailedDelete, ClientError)),
                          loc[p], FailedCall(stat[p]))
    /\ UNCHANGED <<nextId, started, tab0>>

(* ----------------------- List/lambda_functions.py ---------------------- *)
\* lambda_handler up to the scan of get_all_items
InvokeList(p) ==
    /\ FreeSlot(p)
    /\ started < MaxInvocations
    /\ IF HandlerInitFails
         THEN Finish(p, HandleException(ValueError(TableNameRequired)),
                     [NoLoc EXCEPT !.op = "list"], NoStat)
         ELSE Goto(p, "l_scan", [NoLoc EXCEPT !.op = "list"], NoStat)
    /\ started' = started + 1
    /\ tab0' = [tab0 EXCEPT ![p] = table]
    /\ UNCHANGED <<table, nextId>>

\* get_all_items: one scan, the items and len(items)
ListScan(p) ==
    /\ pc[p] = "l_scan"
    /\ \E ok \in BOOLEAN :
         IF ok
           THEN LET items == Scan(table)
                IN  Finish(p, APISuccess([NoBody EXCEPT !.items = items,
                                                        !.count = Cardinality(items)], 200),
                           loc[p], Called(stat[p]))
           ELSE Finish(p, HandleException(RuntimeError(FailedFetch, ClientError)),
                       loc[p], FailedCall(stat[p]))
    /\ UNCHANGED <<table, nextId, started, tab0>>

\* the envelope goes back to the gateway; the invocation keeps no state
Return(p) ==
    /\ pc[p] = "done"
    /\ pc' = [pc EXCEPT ![p] = "idle"]
    /\ loc' = [loc EXCEPT ![p] = NoLoc]
    /\ resp' = [resp EXCEPT ![p] = NoResp]
    /\ stat' = [stat EXCEPT ![p] = NoStat]
    /\ tab0' = [tab0 EXCEPT ![p] = {}]
    /\ UNCHANGED <<table, nextId, started, hist, table_name>>

Step(p) ==
    \/ InvokeCreateOrUpdate(p)
    \/ CreateQuery(p)
    \/ CreatePut(p)
    \/ UpdateGet(p)
    \/ UpdateQuery(p)
    \/ UpdatePut(p)
    \/ UpdateReget(p)
    \/ InvokeDelete(p)
    \/ DeleteGet(p)
    \/ DeleteDelete(p)
    \/ InvokeList(p)
    \/ ListScan(p)
    \/ Return(p)

\* invocations interleave at their storage calls
Next == \E p \in Procs : Step(p)

Spec == Init /\ [][Next]_vars

\* every invocation runs to completion before the next one starts
Alone(p) == \A q \in Procs \ {p} : pc[q] = "idle"

SeqNext ==
    \E p \in Procs :
        \/ Alone(p) /\ InvokeCreateOrUpdate(p)
        \/ CreateQuery(p)
        \/ CreatePut(p)
        \/ UpdateGet(p)
        \/ UpdateQuery(p)
        \/ UpdatePut(p)
        \/ UpdateReget(p)
        \/ Alone(p) /\ InvokeDelete(p)
        \/ DeleteGet(p)
        \/ DeleteDelete(p)
        \/ Alone(p) /\ InvokeList(p)
        \/ ListScan(p)
        \/ Return(p)

SpecSeq == Init /\ [][SeqNext]_vars

\* the entry points in an environment with or without TABLE_NAME
SpecEnv == InitEnv /\ [][Next]_vars

(* ------------------------------ claims --------------------------------- *)
Done(p) == pc[p] = "done"
Succeeded(p) == resp[p].statusCode \in {200, 201}
IdsOf(t) == {x.id : x \in t}
\* the last message of the error chain: what was raised first
Cause(p) == resp[p].body.error[Len(resp[p].body.error)]
NoError(p) == resp[p].body.error = <<>>

\* C1: when invocations do not interleave, no two stored items ever have
\* the same name.
C1_UniqueNames ==
    \A x \in table : \A y \in table : x.name = y.name => x.id = y.id

\* two items are stored, one of them renamed by an update
C1_Witness ==
    /\ Cardinality(table) = 2
    /\ \E x \in table : x.updated_at # NoTime
    /\ \E k \in 1..Len(hist) : hist[k].op = "update"

\* C2: a create with a non-empty name that no stored item has answers 201
\* and stores exactly one new item (fresh id, created_at, no updated_at); a
\* create with a name some stored item has answers 400 "Item with the same
\* name already exists" and storage is as before.  (No storage call failing.)
C2_CreateOutcome ==
    \A p \in Procs :
        (Done(p) /\ loc[p].op = "create" /\ loc[p].name \in Names /\ ~stat[p].failed)
        => IF \E x \in tab0[p] : x.name = loc[p].name
             THEN /\ resp[p].statusCode = 400
                  /\ resp[p].body.error = <<NameExists>>
                  /\ resp[p].body.item = NoItem
                  /\ table = tab0[p]
                  /\ stat[p].puts = 0
             ELSE LET item == resp[p].body.item
                  IN  /\ resp[p].statusCode = 201
                      /\ NoError(p)
                      /\ resp[p].body.message = CreatedMsg
                      /\ item.name = loc[p].name
                      /\ item.id \in Ids
                      /\ item.id \notin IdsOf(tab0[p])
                      /\ \A k \in 1..(Len(hist) - 1) :
                            hist[k].op = "create" => hist[k].result.item.id # item.id
                      /\ item.created_at \in Times
                      /\ item.updated_at = NoTime
                      /\ table = tab0[p] \cup {item}
                      /\ Cardinality(table) = Cardinality(tab0[p]) + 1
                      /\ stat[p].puts = 1

\* a second create of a name is refused after the first was answered 201
C2_Witness ==
    \E p \in Procs :
        /\ Done(p) /\ loc[p].op = "create" /\ loc[p].name \in Names
        /\ resp[p].statusCode = 400
        /\ resp[p].body.error = <<NameExists>>
        /\ \E k \in 1..Len(hist) :
              /\ hist[k].op = "create"
              /\ hist[k].result.item.name = loc[p].name
              /\ hist[k].result.item \in table

\* C3: delete of an id that is not in storage answers 400 NotFound and
\* leaves storage unchanged; delete answers 500 only when a storage call
\* failed.
C3_DeleteMissingIsClientError ==
    \A p \in Procs :
        (Done(p) /\ loc[p].op = "delete")
        => /\ (loc[p].item_id # NoId /\ loc[p].item_id \notin IdsOf(tab0[p]) /\ ~stat[p].failed)
                => /\ resp[p].statusCode = 400
                   /\ resp[p].body.error = <<ItemNotFound>>
                   /\ table = tab0[p]
           /\ resp[p].statusCode = 500 => stat[p].failed

\* C4 as stated: a create-or-update request carrying an id that is not in
\* storage answers NotFound whatever the rest of the payload is, and writes
\* nothing.
C4_MissingIdAlwaysNotFound ==
    \A p \in Procs :
        (Done(p) /\ loc[p].op = "update" /\ loc[p].item_id \notin IdsOf(tab0[p])
                 /\ ~stat[p].failed)
        => /\ resp[p].statusCode = 400
           /\ resp[p].body.error = <<ItemNotFound>>
           /\ stat[p].puts = 0
           /\ table = tab0[p]

\* C4 amended: such a request answers 400 and writes nothing; the error is
\* NotFound when the payload has any field besides id (name present, empty,
\* or absent beside another field) and "Item data is required" when id is
\* its only field; the table is read only in the first case.
C4_MissingIdNotFoundUnlessEmpty ==
    \A p \in Procs :
        (Done(p) /\ loc[p].op = "update" /\ loc[p].item_id \notin IdsOf(tab0[p])
                 /\ ~stat[p].failed)
        => /\ resp[p].statusCode = 400
           /\ resp[p].body.error =
                 IF loc[p].data_empty
                   THEN <<DataRequired>> ELSE <<ItemNotFound>>
           /\ stat[p].calls = IF loc[p].data_empty THEN 0 ELSE 1
           /\ stat[p].puts = 0
           /\ table = tab0[p]

\* an update of an id that was deleted, with an empty name, answered NotFound
C4_Witness ==
    \E p \in Procs :
        /\ Done(p) /\ loc[p].op = "update" /\ loc[p].name = Empty
        /\ loc[p].item_id \notin IdsOf(tab0[p])
        /\ resp[p].body.error = <<ItemNotFound>>
        /\ \E k \in 1..Len(hist) : hist[k].op = "delete" /\ hist[k].item_id = loc[p].item_id

ValidationErrors == {<<DataRequired>>, <<NameRequired>>}

\* C5 as stated: a create or update payload whose name is empty or absent
\* answers 400 Validation whatever its other fields are, and writes nothing.
C5_FalsyNameAlwaysValidation ==
    \A p \in Procs :
        (Done(p) /\ loc[p].op \in {"create", "update"}
                 /\ loc[p].name \in {Absent, Empty} /\ ~stat[p].failed)
        => /\ resp[p].statusCode = 400
           /\ resp[p].body.error \in ValidationErrors
           /\ stat[p].puts = 0
           /\ table = tab0[p]

\* C5 amended: such a payload answers 400 and writes nothing; the error is
\* Validation for a create, for an update whose id is in storage and for an
\* update with no field besides id, and NotFound for an update of an id that
\* is not in storage with some field besides id.
C5_FalsyNameValidationOrNotFound ==
    \A p \in Procs :
        (Done(p) /\ loc[p].op \in {"create", "update"}
                 /\ loc[p].name \in {Absent, Empty} /\ ~stat[p].failed)
        => /\ resp[p].statusCode = 400
           /\ resp[p].body.error =
                 IF loc[p].data_empty THEN <<DataRequired>>
                 ELSE IF loc[p].op = "update" /\ loc[p].item_id \notin IdsOf(tab0[p])
                   THEN <<ItemNotFound>>
                 ELSE <<NameRequired>>
           /\ stat[p].puts = 0
           /\ table = tab0[p]

\* an update of a stored item with an empty name answered "Name is required"
C5_Witness ==
    \E p \in Procs :
        /\ Done(p) /\ loc[p].op = "update" /\ loc[p].name = Empty
        /\ loc[p].item_id \in IdsOf(tab0[p])
        /\ resp[p].statusCode = 400
        /\ resp[p].body.error = <<NameRequired>>

\* C6: a createOrUpdate invocation that answers success made exactly one
\* put; one that answers any error made none and storage is as before it.
C6_OnePutOnSuccessNoneOnError ==
    \A p \in Procs :
        (Done(p) /\ loc[p].op \in {"create", "update"})
        => IF Succeeded(p)
             THEN stat[p].puts = 1
             ELSE stat[p].puts = 0 /\ table = tab0[p]

RECURSIVE LiveAfter(_, _)
\* the <<id, created_at>> of the items created and not deleted by the first
\* n successful invocations
LiveAfter(h, n) ==
    IF n = 0 THEN {}
    ELSE LET e == h[n]
             before == LiveAfter(h, n - 1)
         IN  IF e.op = "create"
               THEN before \cup {<<e.result.item.id, e.result.item.created_at>>}
             ELSE IF e.op = "delete"
               THEN {x \in before : x[1] # e.item_id}
             ELSE before

\* C7: after completed invocations, listAll answers exactly the stored
\* items, which are the items created and not since deleted with their id
\* and created_at; count is the number of items; listAll changes nothing.
\* (The scan not failing.)
C7_ListAll ==
    \A p \in Procs :
        (Done(p) /\ loc[p].op = "list" /\ ~stat[p].failed)
        => /\ resp[p].statusCode = 200
           /\ NoError(p)
           /\ resp[p].body.items = table
           /\ table = tab0[p]
           /\ resp[p].body.count = Cardinality(resp[p].body.items)
           /\ {<<x.id, x.created_at>> : x \in resp[p].body.items} = LiveAfter(hist, Len(hist))
           /\ \A x \in resp[p].body.items : x.name \in Names
           /\ stat[p].puts = 0 /\ stat[p].deletes = 0

\* a list of two stored items
C7_Witness ==
    \E p \in Procs :
        /\ Done(p) /\ loc[p].op = "list"
        /\ resp[p].statusCode = 200
        /\ resp[p].body.count = 2

ClientErrors == {DataRequired, NameRequired, NameExists, ItemNotFound, IdRequiredInPath}

\* C8: in every entry point a failed storage call ends the invocation with
\* a 500 envelope and no further storage call; every invocation ends with an
\* envelope; Validation, Conflict and NotFound end it with status 400.
C8_StorageFailure500ClientError400 ==
    \A p \in Procs :
        /\ stat[p].failed
             => /\ Done(p)
                /\ resp[p].statusCode = 500
                /\ Cause(p) = StorageFailure
        /\ Done(p)
             => /\ resp[p].statusCode \in {200, 201, 400, 500}
                /\ (~NoError(p) /\ Cause(p) \in ClientErrors) => resp[p].statusCode = 400

\* C9: from the empty table, create(A), update(id, B) and listAll, A # B,
\* as the only invocations: the list holds exactly one item, with the id and
\* created_at the create returned, name B and updated_at set; and the item a
\* create returns has no updated_at.
C9_RoundTrip ==
    /\ \A k \in 1..Len(hist) :
          hist[k].op = "create" => hist[k].result.item.updated_at = NoTime
    /\ \A p \in Procs :
          (/\ Done(p) /\ loc[p].op = "list" /\ Succeeded(p)
           /\ started = 3 /\ Len(hist) = 3
           /\ hist[1].op = "create"
           /\ hist[2].op = "update"
           /\ hist[2].item_id = hist[1].result.item.id
           /\ hist[2].name # hist[1].name)
          => LET created == hist[1].result.item
                 items == resp[p].body.items
             IN  /\ resp[p].body.count = 1
                 /\ Cardinality(items) = 1
                 /\ \A x \in items :
                       /\ x.id = created.id
                       /\ x.name = hist[2].name
                       /\ x.created_at = created.created_at
                       /\ x.updated_at \in Times
                       /\ x = hist[2].result.item

\* the list that ends create(A), update(id, B), listAll has been answered
C9_Witness ==
    \E p \in Procs :
        /\ Done(p) /\ loc[p].op = "list" /\ Succeeded(p)
        /\ started = 3 /\ Len(hist) = 3
        /\ hist[1].op = "create" /\ hist[2].op = "update"
        /\ hist[1].name # hist[2].name
        /\ resp[p].body.count = 1

\* p and q are creates of one name that both got past is_name_exists and
\* both put without a storage failure
BothPut(p, q) ==
    /\ p # q
    /\ Done(p) /\ Done(q)
    /\ loc[p].op = "create" /\ loc[q].op = "create"
    /\ loc[p].name = loc[q].name
    /\ stat[p].calls = 2 /\ stat[q].calls = 2
    /\ ~stat[p].failed /\ ~stat[q].failed

\* C10: two creates of the same name whose storage calls interleave so that
\* both pass the name query before either puts are both answered 201, and
\* storage then holds two items with that name: nothing at the put enforces
\* uniqueness.
C10_RaceStoresDuplicate ==
    \A p \in Procs : \A q \in Procs :
        BothPut(p, q)
        => /\ resp[p].statusCode = 201 /\ resp[q].statusCode = 201
           /\ resp[p].body.item.id # resp[q].body.item.id
           /\ resp[p].body.item.name = resp[q].body.item.name
           /\ started = 2 => /\ table = {resp[p].body.item, resp[q].body.item}
                              /\ Cardinality(QueryByName(table, loc[p].name)) = 2

\* the only two invocations, creates of one name, both got past the query
\* before either put, were both answered 201, and both items are stored
C10_Witness ==
    \E p \in Procs : \E q \in Procs :
        /\ BothPut(p, q)
        /\ started = 2
        /\ resp[p].statusCode = 201 /\ resp[q].statusCode = 201
        /\ \E x \in table : \E y \in table : x.id # y.id /\ x.name = y.name

\* C11: a missing TABLE_NAME is a fatal configuration error, not a
\* request-time error: with TABLE_NAME unset no invocation of any entry
\* point is answered with a 400 or any other envelope.
C11_MissingTableNameIsNoEnvelope ==
    \A p \in Procs : table_name = Unset => resp[p] = NoResp

\* C12: an update of a stored item with a non-empty name that any stored
\* item holds, the updated item itself included, answers 400 "Item with the
\* same name already exists" and leaves storage as it was, so a rename to
\* the item's own name is refused and sets no updated_at.  (No storage call
\* failing.)
C12_UpdateConflictExcludesNoItem ==
    \A p \in Procs :
        (/\ Done(p) /\ loc[p].op = "update" /\ ~stat[p].failed
         /\ loc[p].item_id \in IdsOf(tab0[p])
         /\ loc[p].name \in Names
         /\ \E x \in tab0[p] : x.name = loc[p].name)
        => /\ resp[p].statusCode = 400
           /\ resp[p].body.error = <<NameExists>>
           /\ resp[p].body.item = NoItem
           /\ stat[p].puts = 0
           /\ table = tab0[p]
           /\ \A x \in table : x.id = loc[p].item_id =>
                 x.updated_at = TheItem(tab0[p], loc[p].item_id).updated_at

\* a rename of an item to its own name, held by no other item, was refused
C12_Witness ==
    \E p \in Procs :
        /\ Done(p) /\ loc[p].op = "update"
        /\ loc[p].item_id \in IdsOf(tab0[p])
        /\ TheItem(tab0[p], loc[p].item_id).name = loc[p].name
        /\ \A x \in tab0[p] : x.name = loc[p].name => x.id = loc[p].item_id
        /\ resp[p].statusCode = 400
        /\ resp[p].body.error = <<NameExists>>
        /\ \A x \in table : x.updated_at = NoTime

\* the creates answered 201, as <<id, created_at>>
Created == {<<hist[k].result.item.id, hist[k].result.item.created_at>> :
                k \in {j \in 1..Len(hist) : hist[j].op = "create"}}

\* stored items have pairwise distinct ids; every stored item has the id and
\* created_at some create gave it; no two creates gave the same id
C13_Identity ==
    /\ \A x \in table : \A y \in table : x.id = y.id => x = y
    /\ \A x \in table : <<x.id, x.created_at>> \in Created
    /\ \A j \in 1..Len(hist) : \A k \in 1..Len(hist) :
          (j # k /\ hist[j].op = "create" /\ hist[k].op = "create")
          => hist[j].result.item.id # hist[k].result.item.id
    /\ \A x \in table : x.id < nextId

\* the put of an update touches the item of its id only, and of that item
\* the name and updated_at only; the item it answers is the stored one
C13_UpdateIsLocal ==
    \A p \in Procs :
        /\ (pc[p] = "u_put" /\ stat'[p].puts = stat[p].puts + 1)
             => /\ {x \in table' : x.id # loc[p].item_id} = {x \in table : x.id # loc[p].item_id}
                /\ \A x \in table : x.id = loc[p].item_id =>
                      \E y \in table' :
                          /\ y = [x EXCEPT !.name = loc[p].name, !.updated_at = y.updated_at]
                          /\ y.updated_at \in Times
                /\ Cardinality({y \in table' : y.id = loc[p].item_id}) = 1
        /\ (pc'[p] = "done" /\ pc[p] = "u_reget" /\ resp'[p].statusCode = 201)
             => /\ resp'[p].body.item \in table
                /\ resp'[p].body.item.id = loc[p].item_id
                /\ table' = table

\* C13: under any interleaving, stored items have pairwise distinct ids, an
\* id once assigned is never given to another item, and a successful update
\* changes only the name and updated_at of the item with its id, leaving
\* that item's id and created_at and every other stored item unchanged.
C13_IdentityImmutableUpdatesLocal ==
    /\ []C13_Identity
    /\ [][C13_UpdateIsLocal]_vars

\* an update was answered 201 while another invocation was in flight and a
\* second item was stored
C13_Witness ==
    \E p \in Procs : \E q \in Procs :
        /\ p # q /\ pc[q] # "idle"
        /\ Done(p) /\ loc[p].op = "update" /\ resp[p].statusCode = 201
        /\ resp[p].body.item \in table
        /\ Cardinality(table) = 2

\* C14: once a delete of an id has been answered with success, no item
\* with that id is in storage in any later state, whatever updates of that
\* id were in flight.
C14_DeletedStaysDeleted ==
    \A k \in 1..Len(hist) :
        hist[k].op = "delete" => hist[k].item_id \notin IdsOf(table)

====
